---- MODULE Spec2Model ----
(***************************************************************************)
(* Decode-time semantics of the pickls configuration model (src/config.rs). *)
(*                                                                         *)
(* The Rust file holds only data types with derived serde Deserialize      *)
(* implementations; what the program does is one operation: turn a         *)
(* self-describing document into a PicklsConfig snapshot or a decode error. *)
(* A document is modelled as a function from keys to values in which an    *)
(* omitted key is simply outside the DOMAIN; a snapshot is a record with   *)
(* every field of the Rust struct.  Option<T> is [some |-> FALSE] or        *)
(* [some |-> TRUE, v |-> x]; Result<T, E> is [tag |-> "Ok", value |-> x] or *)
(* [tag |-> "Err"] (the text of the error message is not modelled).         *)
(*                                                                         *)
(* The TLA+ lexer accepts no grave accent (U+0060) inside a string literal; *)
(* the three grave accents of the default prompt template are written      *)
(* \x60 each.                                                              *)
(***************************************************************************)
EXTENDS Integers, Sequences, FiniteSets, TLC

VARIABLES doc, pc, outcome, doc2, outcome2

vars == <<doc, pc, outcome, doc2, outcome2>>

---------------------------------------------------------------------------
(* Bounds of the model.                                                    *)

\* Capture-group indices written in documents range over 1..MaxGroup
\* (plus the out-of-range values 0 and -1).
MaxGroup == 2
\* Longest `linters` list written in a document.
MaxLinters == 1
\* Longest `formatters` list written in a document.
MaxFormatters == 1

---------------------------------------------------------------------------
(* Option and Result.                                                      *)

None == [some |-> FALSE]
Some(x) == [some |-> TRUE, v |-> x]

Ok(x) == [tag |-> "Ok", value |-> x]
Err == [tag |-> "Err"]
Pending == [tag |-> "Pending"]

IsOk(r) == r.tag = "Ok"

---------------------------------------------------------------------------
(* Documents: partial functions from keys to values.                       *)

Has(d, k) == k \in DOMAIN d
Without(d, k) == [x \in DOMAIN d \ {k} |-> d[x]]
With(d, k, x) == (k :> x) @@ Without(d, k)

---------------------------------------------------------------------------
(* Default-value functions of config.rs.                                   *)

DEFAULT_CTAGS_TIMEOUT_MS == 500

default_ctags_timeout_ms == DEFAULT_CTAGS_TIMEOUT_MS

default_false == FALSE

\* Variant: default_true returning false.
default_true_Inverted == FALSE
default_true == TRUE

default_openai_api_key_cmd == <<"sh", "-c", "echo $OPENAI_API_KEY">>

default_inline_assist_prompt_template ==
    "I'm working within the {{language_id}} language. If I show you code below, then please rewrite it to make improvements as you see fit. If I show you a question or directive, write code to satisfy the question or directive. Never use markdown to format your response. For example, do not use triple backticks (\\x60\\x60\\x60).\n\n{{text}}\n"

default_inline_assist_system_prompt ==
    "You are an inline assistant for a code editor. Your response to user prompts will be used to replace code in the editor."

\* impl Default for OpenAIConfig.  serde never calls it: OpenAIConfig carries no
\* container-level #[serde(default)].
OpenAIConfig_default ==
    [model |-> "gpt-4o", api_key_cmd |-> default_openai_api_key_cmd]

\* #[default] OpenAI of enum PicklsAIProvider.
PicklsAIProvider_default == "OpenAI"

\* String::default(), which #[derive(Default)] uses for a String field.
String_default == ""

\* #[derive(Default)] on PicklsAIConfig: every field's own Default, the
\* #[serde(default = "...")] attributes play no part in it.
PicklsAIConfig_default ==
    [system_prompt |-> String_default,
     inline_assist_provider |-> PicklsAIProvider_default,
     inline_assist_prompt_template |-> String_default,
     openai |-> None,
     ollama |-> None]

---------------------------------------------------------------------------
(* Scalar and enum decoders.                                               *)

\* usize / u64: no negative value (the upper limit 2^64 - 1 lies outside the
\* integers written in the documents of this model).
IsUsize(n) == n >= 0

\* Variant: description_match typed usize, like the other group indices.
IsIsize_Unsigned(n) == n >= 0
\* isize: every integer written in the documents of this model.
IsIsize(n) == n \in Int

DecodeString(x) == Ok(x)
DecodeBool(x) == Ok(x)
DecodeVecString(x) == Ok(x)
DecodeUsize(n) == IF IsUsize(n) THEN Ok(n) ELSE Err
DecodeU64(n) == IF IsUsize(n) THEN Ok(n) ELSE Err
DecodeIsize(n) == IF IsIsize(n) THEN Ok(n) ELSE Err

\* enum PicklsSymbolsSource, #[serde(rename = "universal-ctags")].
DecodePicklsSymbolsSource(t) ==
    IF t = "universal-ctags" THEN Ok("UniversalCtags") ELSE Err

\* Variant: an unknown tag falls back to the default variant.
DecodePicklsAIProvider_Coercing(t) ==
    IF t = "ollama" THEN Ok("Ollama") ELSE Ok("OpenAI")
\* Variant: the enum without rename_all, tags spelled as the variants.
DecodePicklsAIProvider_NotRenamed(t) ==
    IF t = "OpenAI" THEN Ok("OpenAI")
    ELSE IF t = "Ollama" THEN Ok("Ollama")
    ELSE Err
\* enum PicklsAIProvider, #[serde(rename_all = "lowercase")].
DecodePicklsAIProvider(t) ==
    IF t = "openai" THEN Ok("OpenAI")
    ELSE IF t = "ollama" THEN Ok("Ollama")
    ELSE Err

---------------------------------------------------------------------------
(* Field rules of a derived Deserialize.                                   *)

\* A plain field: a missing key is the error `missing field`.  r is the
\* decoding of the value d[k], looked at only when the key is there.
Required(d, k, r) == IF Has(d, k) THEN r ELSE Err

\* A field with #[serde(default)] or #[serde(default = "f")].
Defaulted(d, k, r, dflt) == IF Has(d, k) THEN r ELSE Ok(dflt)

\* An Option<T> field: a missing key is None.
Optional(d, k, r) ==
    IF Has(d, k) THEN (IF IsOk(r) THEN Ok(Some(r.value)) ELSE Err) ELSE Ok(None)

EmptyMap == [k \in {} |-> None]

---------------------------------------------------------------------------
(* Struct decoders.                                                        *)

DecodePicklsSymbolsConfig(d) ==
    LET source == Required(d, "source", DecodePicklsSymbolsSource(d.source))
        timeout == Defaulted(d, "ctags_timeout_ms", DecodeU64(d.ctags_timeout_ms),
                             default_ctags_timeout_ms)
    IN  IF IsOk(source) /\ IsOk(timeout)
        THEN Ok([source |-> source.value, ctags_timeout_ms |-> timeout.value])
        ELSE Err

DecodePicklsLinterConfig(d) ==
    LET program == Required(d, "program", DecodeString(d.program))
        args == Defaulted(d, "args", DecodeVecString(d.args), <<>>)
        use_stdin == Required(d, "use_stdin", DecodeBool(d.use_stdin))
        pattern == Required(d, "pattern", DecodeString(d.pattern))
        filename_match == Optional(d, "filename_match", DecodeUsize(d.filename_match))
        line_match == Required(d, "line_match", DecodeUsize(d.line_match))
        start_col_match == Optional(d, "start_col_match", DecodeUsize(d.start_col_match))
        end_col_match == Optional(d, "end_col_match", DecodeUsize(d.end_col_match))
        severity_match == Optional(d, "severity_match", DecodeUsize(d.severity_match))
        description_match == Optional(d, "description_match", DecodeIsize(d.description_match))
        use_stderr == Defaulted(d, "use_stderr", DecodeBool(d.use_stderr), default_false)
    IN  IF /\ IsOk(program) /\ IsOk(args) /\ IsOk(use_stdin) /\ IsOk(pattern)
           /\ IsOk(filename_match) /\ IsOk(line_match)
           /\ IsOk(start_col_match) /\ IsOk(end_col_match)
           /\ IsOk(severity_match) /\ IsOk(description_match)
           /\ IsOk(use_stderr)
        THEN Ok([program |-> program.value,
                 args |-> args.value,
                 use_stdin |-> use_stdin.value,
                 pattern |-> pattern.value,
                 filename_match |-> filename_match.value,
                 line_match |-> line_match.value,
                 start_col_match |-> start_col_match.value,
                 end_col_match |-> end_col_match.value,
                 severity_match |-> severity_match.value,
                 description_match |-> description_match.value,
                 use_stderr |-> use_stderr.value])
        ELSE Err

\* Variant: formatter args with the empty-list default of linter args.
DecodePicklsFormatterConfig_ArgsDefaulted(d) ==
    LET program == Required(d, "program", DecodeString(d.program))
        args == Defaulted(d, "args", DecodeVecString(d.args), <<>>)
        use_stdin == Defaulted(d, "use_stdin", DecodeBool(d.use_stdin), default_true)
        stderr_indicates_error ==
            Defaulted(d, "stderr_indicates_error", DecodeBool(d.stderr_indicates_error), default_false)
    IN  IF /\ IsOk(program) /\ IsOk(args) /\ IsOk(use_stdin)
           /\ IsOk(stderr_indicates_error)
        THEN Ok([program |-> program.value,
                 args |-> args.value,
                 use_stdin |-> use_stdin.value,
                 stderr_indicates_error |-> stderr_indicates_error.value])
        ELSE Err
DecodePicklsFormatterConfig(d) ==
    LET program == Required(d, "program", DecodeString(d.program))
        args == Required(d, "args", DecodeVecString(d.args))
        use_stdin == Defaulted(d, "use_stdin", DecodeBool(d.use_stdin), default_true)
        stderr_indicates_error ==
            Defaulted(d, "stderr_indicates_error", DecodeBool(d.stderr_indicates_error), default_false)
    IN  IF /\ IsOk(program) /\ IsOk(args) /\ IsOk(use_stdin)
           /\ IsOk(stderr_indicates_error)
        THEN Ok([program |-> program.value,
                 args |-> args.value,
                 use_stdin |-> use_stdin.value,
                 stderr_indicates_error |-> stderr_indicates_error.value])
        ELSE Err

\* Vec<T>: every element decodes, or the whole sequence fails.
DecodeLinters(s) ==
    IF \A i \in 1..Len(s) : IsOk(DecodePicklsLinterConfig(s[i]))
    THEN Ok([i \in 1..Len(s) |-> DecodePicklsLinterConfig(s[i]).value])
    ELSE Err
DecodeFormatters(s) ==
    IF \A i \in 1..Len(s) : IsOk(DecodePicklsFormatterConfig(s[i]))
    THEN Ok([i \in 1..Len(s) |-> DecodePicklsFormatterConfig(s[i]).value])
    ELSE Err

DecodePicklsLanguageConfig(d) ==
    LET root_markers == Defaulted(d, "root_markers", DecodeVecString(d.root_markers), <<>>)
        linters == Defaulted(d, "linters", DecodeLinters(d.linters), <<>>)
        formatters ==
            Defaulted(d, "formatters", DecodeFormatters(d.formatters), <<>>)
    IN  IF IsOk(root_markers) /\ IsOk(linters) /\ IsOk(formatters)
        THEN Ok([root_markers |-> root_markers.value,
                 linters |-> linters.value,
                 formatters |-> formatters.value])
        ELSE Err

DecodeOllamaConfig(d) ==
    LET model == Required(d, "model", DecodeString(d.model))
        api_address == Required(d, "api_address", DecodeString(d.api_address))
    IN  IF IsOk(model) /\ IsOk(api_address)
        THEN Ok([model |-> model.value, api_address |-> api_address.value])
        ELSE Err

DecodeOpenAIConfig(d) ==
    LET model == Required(d, "model", DecodeString(d.model))
        api_key_cmd == Defaulted(d, "api_key_cmd", DecodeVecString(d.api_key_cmd),
                                 default_openai_api_key_cmd)
    IN  IF IsOk(model) /\ IsOk(api_key_cmd)
        THEN Ok([model |-> model.value, api_key_cmd |-> api_key_cmd.value])
        ELSE Err

DecodePicklsAIConfig(d) ==
    LET system_prompt == Defaulted(d, "system_prompt", DecodeString(d.system_prompt),
                                   default_inline_assist_system_prompt)
        inline_assist_provider ==
            Required(d, "inline_assist_provider", DecodePicklsAIProvider(d.inline_assist_provider))
        inline_assist_prompt_template ==
            Defaulted(d, "inline_assist_prompt_template", DecodeString(d.inline_assist_prompt_template),
                      default_inline_assist_prompt_template)
        openai == Optional(d, "openai", DecodeOpenAIConfig(d.openai))
        ollama == Optional(d, "ollama", DecodeOllamaConfig(d.ollama))
    IN  IF /\ IsOk(system_prompt) /\ IsOk(inline_assist_provider)
           /\ IsOk(inline_assist_prompt_template)
           /\ IsOk(openai) /\ IsOk(ollama)
        THEN Ok([system_prompt |-> system_prompt.value,
                 inline_assist_provider |-> inline_assist_provider.value,
                 inline_assist_prompt_template |->
                     inline_assist_prompt_template.value,
                 openai |-> openai.value,
                 ollama |-> ollama.value])
        ELSE Err

\* HashMap<String, T>: every value decodes, or the whole map fails.
DecodeLanguages(m) ==
    IF \A k \in DOMAIN m : IsOk(DecodePicklsLanguageConfig(m[k]))
    THEN Ok([k \in DOMAIN m |-> DecodePicklsLanguageConfig(m[k]).value])
    ELSE Err

DecodePicklsConfig(d) ==
    LET languages ==
            IF Has(d, "languages") THEN DecodeLanguages(d.languages)
            ELSE Ok(EmptyMap)
        symbols == Optional(d, "symbols", DecodePicklsSymbolsConfig(d.symbols))
        ai == Defaulted(d, "ai", DecodePicklsAIConfig(d.ai), PicklsAIConfig_default)
    IN  IF IsOk(languages) /\ IsOk(symbols) /\ IsOk(ai)
        THEN Ok([languages |-> languages.value,
                 symbols |-> symbols.value,
                 ai |-> ai.value])
        ELSE Err

---------------------------------------------------------------------------
(* Writing a snapshot out as a document with every field explicit, under   *)
(* the key and tag names the structs declare.  A None has no explicit form: *)
(* its key is left out.                                                    *)

EncodePicklsSymbolsSource(x) == "universal-ctags"

EncodePicklsAIProvider(x) == IF x = "OpenAI" THEN "openai" ELSE "ollama"

\* An Option<T> field: the key with the value of a Some, no key for a None.
EncodeOption(k, o) == IF o.some THEN k :> o.v ELSE <<>>

EncodePicklsSymbolsConfig(x) ==
    [source |-> EncodePicklsSymbolsSource(x.source),
     ctags_timeout_ms |-> x.ctags_timeout_ms]

EncodePicklsLinterConfig(x) ==
    [program |-> x.program,
     args |-> x.args,
     use_stdin |-> x.use_stdin,
     pattern |-> x.pattern,
     line_match |-> x.line_match,
     use_stderr |-> x.use_stderr]
    @@ EncodeOption("filename_match", x.filename_match)
    @@ EncodeOption("start_col_match", x.start_col_match)
    @@ EncodeOption("end_col_match", x.end_col_match)
    @@ EncodeOption("severity_match", x.severity_match)
    @@ EncodeOption("description_match", x.description_match)

EncodePicklsFormatterConfig(x) ==
    [program |-> x.program,
     args |-> x.args,
     use_stdin |-> x.use_stdin,
     stderr_indicates_error |-> x.stderr_indicates_error]

EncodePicklsLanguageConfig(x) ==
    [root_markers |-> x.root_markers,
     linters |->
         [i \in 1..Len(x.linters) |-> EncodePicklsLinterConfig(x.linters[i])],
     formatters |->
         [i \in 1..Len(x.formatters) |->
             EncodePicklsFormatterConfig(x.formatters[i])]]

EncodeOpenAIConfig(x) == [model |-> x.model, api_key_cmd |-> x.api_key_cmd]

EncodeOllamaConfig(x) == [model |-> x.model, api_address |-> x.api_address]

EncodePicklsAIConfig(x) ==
    [system_prompt |-> x.system_prompt,
     inline_assist_provider |-> EncodePicklsAIProvider(x.inline_assist_provider),
     inline_assist_prompt_template |-> x.inline_assist_prompt_template]
    @@ (IF x.openai.some
        THEN "openai" :> EncodeOpenAIConfig(x.openai.v) ELSE <<>>)
    @@ (IF x.ollama.some
        THEN "ollama" :> EncodeOllamaConfig(x.ollama.v) ELSE <<>>)

EncodePicklsConfig(x) ==
    [languages |->
         [k \in DOMAIN x.languages |->
             EncodePicklsLanguageConfig(x.languages[k])],
     ai |-> EncodePicklsAIConfig(x.ai)]
    @@ (IF x.symbols.some
        THEN "symbols" :> EncodePicklsSymbolsConfig(x.symbols.v) ELSE <<>>)

---------------------------------------------------------------------------
(* The documents handed to the decoder.                                    *)

\* The documents that leave key k out or give it one of the values of V.
Opt(k, V) == {<<>>} \cup {k :> x : x \in V}
\* Every union of a document of A with a document of B (disjoint keys).
Join(A, B) == {a @@ b : a \in A, b \in B}
\* The sequences over S of length at most n.
SeqUpTo(S, n) == UNION {[1..m -> S] : m \in 0..n}

Groups == 1..MaxGroup

\* The linter of the flake8 scenario without its description_match.
BaseLinter ==
    [program |-> "flake8",
     use_stdin |-> FALSE,
     pattern |-> "(\\d+):(\\d+): (.*)",
     line_match |-> 1]

LinterDocs ==
    \* any of the four mandatory keys left out
    Join(Join(Opt("program", {"flake8"}), Opt("use_stdin", {FALSE})),
         Join(Opt("pattern", {"(\\d+):(\\d+): (.*)"}), Opt("line_match", {1})))
    \* line_match over the group indices and the out-of-range 0 and -1
    \cup {With(BaseLinter, "line_match", n) : n \in Groups \cup {0, -1}}
    \* description_match unset, the sentinel -1, a group index
    \cup Join({BaseLinter}, Opt("description_match", Groups \cup {-1}))
    \* the keys with a default
    \cup Join(Join({With(BaseLinter, "use_stdin", b) : b \in BOOLEAN},
                   Opt("args", {<<"$filename">>})),
              Opt("use_stderr", BOOLEAN))
    \* the optional group indices
    \cup Join(Join(Join({BaseLinter}, Opt("filename_match", {1})),
                   Join(Opt("start_col_match", {MaxGroup, -1}),
                        Opt("end_col_match", {MaxGroup}))),
              Opt("severity_match", {0}))

BaseFormatter == [program |-> "black", args |-> <<"-q", "-">>]

FormatterDocs ==
    Join(Join(Opt("program", {"black"}), Opt("args", {<<"-q", "-">>})),
         Join(Opt("use_stdin", BOOLEAN),
              Opt("stderr_indicates_error", BOOLEAN)))

ValidLanguage ==
    [root_markers |-> <<"pyproject.toml">>,
     linters |-> <<BaseLinter>>,
     formatters |-> <<BaseFormatter>>]

\* A language whose only linter leaves `program` out.
BrokenLanguage == [linters |-> <<Without(BaseLinter, "program")>>]

LanguageDocs ==
    Join(Opt("linters", SeqUpTo(LinterDocs, MaxLinters)),
         Opt("formatters", {<<BaseFormatter>>}))
    \cup Join(Join(Opt("root_markers", {<<"pyproject.toml">>}),
                   Opt("linters", {<<BaseLinter>>})),
              Opt("formatters", SeqUpTo(FormatterDocs, MaxFormatters)))

OtherLanguageDocs ==
    {ValidLanguage, BrokenLanguage, <<>>,
     [formatters |-> <<Without(BaseFormatter, "args")>>]}

LanguagesDocs ==
    {<<>>}
    \cup {"python" :> l : l \in LanguageDocs}
    \cup {("python" :> l) @@ ("rust" :> r) :
              l \in OtherLanguageDocs, r \in OtherLanguageDocs}

ValidSymbols == [source |-> "universal-ctags"]

SymbolsDocs ==
    Join(Opt("source", {"universal-ctags", "Universal-Ctags", "ctags"}),
         Opt("ctags_timeout_ms", {0, 250}))

OpenAIDocs ==
    Join(Opt("model", {"gpt-4o-mini"}),
         Opt("api_key_cmd", {<<"pass", "show", "openai">>}))

OllamaDocs ==
    Join(Opt("model", {"llama3.2"}),
         Opt("api_address", {"http://localhost:11434/api/generate"}))

ValidAI == [inline_assist_provider |-> "ollama"]

AIDocs ==
    Join(Join(Join(Opt("system_prompt", {"Be terse."}),
                   Opt("inline_assist_prompt_template", {"{{text}}"})),
              Opt("inline_assist_provider",
                  {"openai", "ollama", "OpenAI", "anthropic"})),
         Join(Opt("openai", OpenAIDocs), Opt("ollama", OllamaDocs)))

Docs ==
    \* the languages section in full
    Join(Join(Opt("languages", LanguagesDocs), Opt("symbols", {ValidSymbols})),
         Opt("ai", {ValidAI}))
    \* the symbols section in full
    \cup Join(Join(Opt("languages", {"python" :> ValidLanguage}),
                   Opt("symbols", SymbolsDocs)),
              Opt("ai", {ValidAI}))
    \* the ai section in full
    \cup Join(Join(Opt("languages", {"python" :> ValidLanguage,
                                      "python" :> BrokenLanguage}),
                   Opt("symbols", {ValidSymbols, [source |-> "ctags"]})),
              Opt("ai", AIDocs))

---------------------------------------------------------------------------
(* The state machine: a document is loaded; a snapshot that was produced   *)
(* is written out with every field explicit; that document is loaded.      *)

Init ==
    /\ doc \in Docs
    /\ pc = "start"
    /\ outcome = Pending
    /\ doc2 = <<>>
    /\ outcome2 = Pending

\* Deserialize the document into a PicklsConfig.
Load ==
    /\ pc = "start"
    /\ outcome' = DecodePicklsConfig(doc)
    /\ pc' = "decoded"
    /\ UNCHANGED <<doc, doc2, outcome2>>

\* Write the snapshot out, every field explicit.
WriteOut ==
    /\ pc = "decoded"
    /\ IsOk(outcome)
    /\ doc2' = EncodePicklsConfig(outcome.value)
    /\ pc' = "written"
    /\ UNCHANGED <<doc, outcome, outcome2>>

\* Deserialize the written document.
Reload ==
    /\ pc = "written"
    /\ outcome2' = DecodePicklsConfig(doc2)
    /\ pc' = "reloaded"
    /\ UNCHANGED <<doc, outcome, doc2>>

Next == Load \/ WriteOut \/ Reload

Spec == Init /\ [][Next]_vars

---------------------------------------------------------------------------
(* Vocabulary of the properties.                                           *)

Loaded == pc # "start"

\* The language, linter and formatter descriptors written in a document.
LanguagesIn(d) ==
    IF Has(d, "languages")
    THEN {d.languages[k] : k \in DOMAIN d.languages} ELSE {}
LintersIn(d) ==
    UNION {IF Has(l, "linters")
           THEN {l.linters[i] : i \in 1..Len(l.linters)} ELSE {} :
           l \in LanguagesIn(d)}
FormattersIn(d) ==
    UNION {IF Has(l, "formatters")
           THEN {l.formatters[i] : i \in 1..Len(l.formatters)} ELSE {} :
           l \in LanguagesIn(d)}

\* The document with one key of its ai section set, or removed.
WithAI(d, k, x) == With(d, "ai", With(d.ai, k, x))
WithoutAI(d, k) == With(d, "ai", Without(d.ai, k))

LinterKeys ==
    {"program", "args", "use_stdin", "pattern", "filename_match",
     "line_match", "start_col_match", "end_col_match", "severity_match",
     "description_match", "use_stderr"}
FormatterKeys == {"program", "args", "use_stdin", "stderr_indicates_error"}
AIKeys ==
    {"system_prompt", "inline_assist_provider",
     "inline_assist_prompt_template", "openai", "ollama"}

\* A snapshot with every field of every struct present.
IsCompleteSnapshot(s) ==
    /\ DOMAIN s = {"languages", "symbols", "ai"}
    /\ \A k \in DOMAIN s.languages :
          /\ DOMAIN s.languages[k] = {"root_markers", "linters", "formatters"}
          /\ \A i \in 1..Len(s.languages[k].linters) :
                DOMAIN s.languages[k].linters[i] = LinterKeys
          /\ \A i \in 1..Len(s.languages[k].formatters) :
                DOMAIN s.languages[k].formatters[i] = FormatterKeys
    /\ s.symbols.some =>
          /\ DOMAIN s.symbols.v = {"source", "ctags_timeout_ms"}
          /\ s.symbols.v.source = "UniversalCtags"
    /\ DOMAIN s.ai = AIKeys
    /\ s.ai.inline_assist_provider \in {"OpenAI", "Ollama"}
    /\ s.ai.openai.some => DOMAIN s.ai.openai.v = {"model", "api_key_cmd"}
    /\ s.ai.ollama.some => DOMAIN s.ai.ollama.v = {"model", "api_address"}

---------------------------------------------------------------------------
(* C1: a document without an `ai` section decodes to a snapshot whose      *)
(* provider is OpenAI, whose openai block is absent and whose system       *)
(* prompt and prompt template are the documented default texts.            *)
C1_OmittedAIGetsDocumentedDefaults ==
    (Loaded /\ ~Has(doc, "ai") /\ IsOk(outcome)) =>
        /\ outcome.value.ai.inline_assist_provider = "OpenAI"
        /\ outcome.value.ai.openai = None
        /\ outcome.value.ai.system_prompt = default_inline_assist_system_prompt
        /\ outcome.value.ai.inline_assist_prompt_template =
               default_inline_assist_prompt_template

(* C2: whenever inline_assist_provider is absent from an otherwise valid   *)
(* document (one that decodes once the key is written), the document       *)
(* decodes and the provider is OpenAI.                                     *)
C2_AbsentProviderDefaultsToOpenAI ==
    (/\ Loaded
     /\ Has(doc, "ai") => /\ ~Has(doc.ai, "inline_assist_provider")
                          /\ IsOk(DecodePicklsConfig(
                                 WithAI(doc, "inline_assist_provider", "openai")))
     /\ ~Has(doc, "ai") => IsOk(outcome)) =>
        /\ IsOk(outcome)
        /\ outcome.value.ai.inline_assist_provider = "OpenAI"

(* C3: in an otherwise valid document whose openai block is present, an    *)
(* omitted model resolves to "gpt-4o" and an omitted api_key_cmd to        *)
(* sh -c "echo $OPENAI_API_KEY", each whether or not the other is given.   *)
C3_OpenAIFieldsDefaultIndependently ==
    (/\ Loaded
     /\ Has(doc, "ai")
     /\ Has(doc.ai, "openai")
     /\ IsOk(DecodePicklsConfig(
            WithAI(doc, "openai", With(doc.ai.openai, "model", "gpt-4o"))))) =>
        /\ IsOk(outcome)
        /\ ~Has(doc.ai.openai, "model") =>
               outcome.value.ai.openai.v.model = "gpt-4o"
        /\ ~Has(doc.ai.openai, "api_key_cmd") =>
               outcome.value.ai.openai.v.api_key_cmd =
                   <<"sh", "-c", "echo $OPENAI_API_KEY">>

(* C4: a document that selects the ollama provider and whose ollama block  *)
(* leaves model or api_address unset decodes without error (provided it    *)
(* decodes with both written).                                             *)
C4_UnsetOllamaFieldsAreNotDecodeErrors ==
    (/\ Loaded
     /\ Has(doc, "ai")
     /\ Has(doc.ai, "inline_assist_provider")
     /\ doc.ai.inline_assist_provider = "ollama"
     /\ Has(doc.ai, "ollama")
     /\ ~Has(doc.ai.ollama, "model") \/ ~Has(doc.ai.ollama, "api_address")
     /\ IsOk(DecodePicklsConfig(
            WithAI(doc, "ollama",
                   [model |-> "llama3.2",
                    api_address |-> "http://localhost:11434/api/generate"])))) =>
        IsOk(outcome)

---------------------------------------------------------------------------
BadSourceTag(d) ==
    /\ Has(d, "symbols")
    /\ Has(d.symbols, "source")
    /\ d.symbols.source # "universal-ctags"
BadProviderTag(d) ==
    /\ Has(d, "ai")
    /\ Has(d.ai, "inline_assist_provider")
    /\ d.ai.inline_assist_provider \notin {"openai", "ollama"}

(* C5: a document whose symbols.source is not "universal-ctags" or whose   *)
(* inline_assist_provider is neither "openai" nor "ollama" fails to load;  *)
(* a load ends in an error or in a complete snapshot, never in both.       *)
C5_UnknownTagFailsLoad ==
    Loaded =>
        /\ (BadSourceTag(doc) \/ BadProviderTag(doc)) => outcome = Err
        /\ \/ outcome = Err
           \/ /\ IsOk(outcome)
              /\ DOMAIN outcome = {"tag", "value"}
              /\ IsCompleteSnapshot(outcome.value)

\* An unknown provider tag is all that is wrong with the loaded document.
C5_Witness ==
    /\ pc = "decoded"
    /\ BadProviderTag(doc)
    /\ IsOk(DecodePicklsConfig(WithAI(doc, "inline_assist_provider", "openai")))
    /\ outcome = Err

---------------------------------------------------------------------------
(* C6: in a snapshot, every omitted symbols, language, linter or formatter *)
(* field with a default holds that default: ctags_timeout_ms 500,          *)
(* use_stderr false, formatter use_stdin true, stderr_indicates_error      *)
(* false, and the empty sequence for root_markers, linters, formatters and *)
(* linter args.                                                            *)
C6_OmittedFieldsGetDefaults ==
    (Loaded /\ IsOk(outcome)) =>
        /\ (Has(doc, "symbols") /\ ~Has(doc.symbols, "ctags_timeout_ms")) =>
               outcome.value.symbols.v.ctags_timeout_ms = 500
        /\ Has(doc, "languages") =>
             \A k \in DOMAIN doc.languages :
               LET ld == doc.languages[k]
                   lv == outcome.value.languages[k]
               IN  /\ ~Has(ld, "root_markers") => lv.root_markers = <<>>
                   /\ ~Has(ld, "linters") => lv.linters = <<>>
                   /\ ~Has(ld, "formatters") => lv.formatters = <<>>
                   /\ Has(ld, "linters") =>
                        \A i \in 1..Len(ld.linters) :
                          /\ ~Has(ld.linters[i], "args") =>
                                 lv.linters[i].args = <<>>
                          /\ ~Has(ld.linters[i], "use_stderr") =>
                                 lv.linters[i].use_stderr = FALSE
                   /\ Has(ld, "formatters") =>
                        \A i \in 1..Len(ld.formatters) :
                          /\ ~Has(ld.formatters[i], "use_stdin") =>
                                 lv.formatters[i].use_stdin = TRUE
                          /\ ~Has(ld.formatters[i], "stderr_indicates_error") =>
                                 lv.formatters[i].stderr_indicates_error = FALSE

\* The flake8 scenario: one language, one linter, no formatters.
C6_Witness ==
    /\ pc = "decoded"
    /\ Has(doc, "languages")
    /\ doc.languages =
           ("python" :> [linters |->
                <<With(BaseLinter, "description_match", -1)>>])
    /\ IsOk(outcome)
    /\ outcome.value.languages["python"].formatters = <<>>
    /\ outcome.value.languages["python"].linters[1].use_stderr = FALSE

---------------------------------------------------------------------------
(* C7: the decode outcome, the provider and the selected backend's         *)
(* descriptor do not depend on the block of the unselected backend: they   *)
(* are the same for every document that differs from the loaded one only   *)
(* in that block.                                                          *)
C7_UnselectedBlockIsImmaterial ==
    (/\ Loaded
     /\ Has(doc, "ai")
     /\ Has(doc.ai, "inline_assist_provider")
     /\ doc.ai.inline_assist_provider \in {"openai", "ollama"}) =>
        LET sel == doc.ai.inline_assist_provider
            unsel == IF sel = "openai" THEN "ollama" ELSE "openai"
            blocks == IF unsel = "ollama" THEN OllamaDocs ELSE OpenAIDocs
            alts == {WithoutAI(doc, unsel)}
                    \cup {WithAI(doc, unsel, b) : b \in blocks}
        IN  \A a \in alts :
              LET r == DecodePicklsConfig(a)
              IN  /\ r.tag = outcome.tag
                  /\ IsOk(r) =>
                       /\ r.value.ai.inline_assist_provider =
                              outcome.value.ai.inline_assist_provider
                       /\ r.value.ai[sel] = outcome.value.ai[sel]

---------------------------------------------------------------------------
(* C8: description_match accepts -1; -1, a group index n >= 1 and an       *)
(* omitted key decode to three different field values, none of them a      *)
(* decode failure, and the snapshot keeps the one that was written;        *)
(* a negative line_match fails the load.                                   *)
C8_DescriptionMatchSentinel ==
    Loaded =>
        /\ \A l \in LintersIn(doc) :
             /\ (Has(l, "line_match") /\ l.line_match < 0) =>
                    (DecodePicklsLinterConfig(l) = Err /\ outcome = Err)
             /\ LET unset == DecodePicklsLinterConfig(
                                 Without(l, "description_match"))
                    set(n) == DecodePicklsLinterConfig(
                                  With(l, "description_match", n))
                IN  IsOk(unset) =>
                      /\ unset.value.description_match = None
                      /\ \A n \in Groups \cup {-1} :
                           /\ IsOk(set(n))
                           /\ set(n).value.description_match = Some(n)
                           /\ set(n).value.description_match # None
                      /\ \A n \in Groups :
                           set(n).value.description_match #
                               set(-1).value.description_match
        /\ (IsOk(outcome) /\ Has(doc, "languages")) =>
             \A k \in DOMAIN doc.languages :
               Has(doc.languages[k], "linters") =>
                 \A i \in 1..Len(doc.languages[k].linters) :
                   outcome.value.languages[k].linters[i].description_match =
                     IF Has(doc.languages[k].linters[i], "description_match")
                     THEN Some(doc.languages[k].linters[i].description_match)
                     ELSE None

C8_Witness ==
    /\ pc = "decoded"
    /\ Has(doc, "languages")
    /\ Has(doc.languages, "python")
    /\ Has(doc.languages["python"], "linters")
    /\ Len(doc.languages["python"].linters) >= 1
    /\ Has(doc.languages["python"].linters[1], "description_match")
    /\ doc.languages["python"].linters[1].description_match = -1
    /\ IsOk(outcome)
    /\ outcome.value.languages["python"].linters[1].description_match = Some(-1)

---------------------------------------------------------------------------
(* C9: writing a decoded snapshot out with every field explicit and        *)
(* decoding that document succeeds and gives the same snapshot.            *)
C9_DefaultingIsIdempotent ==
    pc = "reloaded" => (IsOk(outcome2) /\ outcome2 = outcome)

\* A reload of a snapshot in which defaults had been filled in.
C9_Witness ==
    /\ pc = "reloaded"
    /\ doc2 # doc
    /\ Has(doc, "ai")
    /\ Has(doc, "symbols")
    /\ Has(doc, "languages")
    /\ Has(doc.languages, "python")
    /\ IsOk(outcome2)
    /\ Len(outcome2.value.languages["python"].linters) >= 1
    /\ Len(outcome2.value.languages["python"].formatters) >= 1

---------------------------------------------------------------------------
MissingMandatoryField(d) ==
    \/ \E l \in LintersIn(d) :
         \E k \in {"program", "use_stdin", "pattern", "line_match"} : ~Has(l, k)
    \/ \E f \in FormattersIn(d) : ~Has(f, "program") \/ ~Has(f, "args")
    \/ Has(d, "symbols") /\ ~Has(d.symbols, "source")

(* C10: a linter without program, use_stdin, pattern or line_match, a      *)
(* formatter without program or args, or a symbols block without source,   *)
(* anywhere in the document, makes the whole load fail.                    *)
C10_MissingMandatoryFieldFailsLoad ==
    (Loaded /\ MissingMandatoryField(doc)) => outcome = Err

\* One language is valid, the other has a formatter without args.
C10_Witness ==
    /\ pc = "decoded"
    /\ Has(doc, "languages")
    /\ DOMAIN doc.languages = {"python", "rust"}
    /\ doc.languages["python"] = ValidLanguage
    /\ doc.languages["rust"] =
           [formatters |-> <<Without(BaseFormatter, "args")>>]
    /\ outcome = Err

====
